---------------------------- MODULE Spec2Model ----------------------------
(***************************************************************************)
(* A model of the ezy router: the segment trie of _route (Insert, Search,  *)
(* Invoke, Name, From, For/Get/Post/Any) and ServerMux.ServeHTTP.          *)
(* Routes and paths are strings; path.Clean and strings.Split are computed *)
(* character by character, url.Values is a map from key to value list.     *)
(***************************************************************************)
EXTENDS Integers, Sequences, FiniteSets, TLC

VARIABLES
    nodes,   \* the _route structs, nodes[1] the root
    sm,      \* the ServerMux: its prefix and its not-found handler
    insLog,  \* the Insert calls made: the route and the node returned
    count,   \* the handler registrations and the Name calls made
    out,     \* the last call: its arguments and what it returned
    frames,  \* the Group calls in progress, outermost first: prefix and prev
    calls    \* the Search calls of the request goroutines and their captures

vars == <<nodes, sm, insLog, count, out, frames, calls>>

(***************************************************************************)
(* Bounds of the model.                                                    *)
(***************************************************************************)
MaxInserts == 2
MaxReInserts == 3
MaxRegs == 2
MaxNames == 1
MaxSteps == 40

(***************************************************************************)
(* Program constants.                                                      *)
(***************************************************************************)
dynamic == ":"
wildcard == "*"
anyone == "*"
customANY == "ANY"
MethodGet == "GET"
MethodPost == "POST"
StatusInternalServerError == 500

(***************************************************************************)
(* strings.Split(s, "/"), strings.Join(a, "/") and path.Clean.             *)
(***************************************************************************)
RECURSIVE SplitFrom(_, _, _)
SplitFrom(s, cur, acc) ==
    IF s = "" THEN Append(acc, cur)
    ELSE IF Head(s) = "/" THEN SplitFrom(Tail(s), "", Append(acc, cur))
    ELSE SplitFrom(Tail(s), cur \o Head(s), acc)

Split(s) == SplitFrom(s, "", << >>)

RECURSIVE Join(_)
Join(a) ==
    IF Len(a) = 0 THEN ""
    ELSE IF Len(a) = 1 THEN a[1]
    ELSE a[1] \o "/" \o Join(Tail(a))

\* The elements path.Clean keeps: "" and "." are dropped, ".." removes the
\* element before it, is dropped at the root of a rooted path and is kept
\* at the front of a relative one.
RECURSIVE CleanElems(_, _, _)
CleanElems(elems, rooted, kept) ==
    IF Len(elems) = 0 THEN kept
    ELSE LET e == Head(elems)
             rest == Tail(elems)
         IN  IF e = "" \/ e = "." THEN CleanElems(rest, rooted, kept)
             ELSE IF e = ".."
                  THEN IF Len(kept) > 0 /\ kept[Len(kept)] # ".."
                       THEN CleanElems(rest, rooted, SubSeq(kept, 1, Len(kept) - 1))
                       ELSE IF rooted THEN CleanElems(rest, rooted, kept)
                       ELSE CleanElems(rest, rooted, Append(kept, e))
                  ELSE CleanElems(rest, rooted, Append(kept, e))

Clean(route) ==
    IF route = "" THEN "."
    ELSE LET rooted == Head(route) = "/"
             kept == CleanElems(Split(route), rooted, << >>)
         IN  IF rooted THEN "/" \o Join(kept)
             ELSE IF Len(kept) = 0 THEN "." ELSE Join(kept)

(***************************************************************************)
(* url.Values: a map from a key to the list of its values.                 *)
(***************************************************************************)
NoValues == << >>

Has(v, key) == key \in DOMAIN v

Get(v, key) == IF key \in DOMAIN v /\ Len(v[key]) > 0 THEN v[key][1] ELSE ""

Add(v, key, value) ==
    IF key \in DOMAIN v THEN [v EXCEPT ![key] = Append(@, value)]
    ELSE (key :> <<value>>) @@ v

Del(v, key) == [k \in DOMAIN v \ {key} |-> v[k]]

(***************************************************************************)
(* The trie.  nodes[1] is the root made by createRootRoute; parent 0 is    *)
(* the nil parent.  sub, hmap and named are maps (hmapMade: hmap is not    *)
(* the nil map).                                                           *)
(***************************************************************************)
Nil == 0
Root == 1

createRootRoute ==
    [parent |-> Nil, sub |-> << >>, hmap |-> << >>, hmapMade |-> TRUE,
     named |-> << >>, pattern |-> "", placeholder |-> "", name |-> "",
     cc |-> << >>, hasDynamicChild |-> FALSE, hasWildcardChild |-> FALSE]

\* newRoute with the ':' or '*' left on the placeholder.
newRoute_KeepPrefix(current, seg) ==
    [parent |-> current, sub |-> << >>, hmap |-> << >>, hmapMade |-> FALSE,
     named |-> << >>, pattern |-> seg, placeholder |-> seg,
     name |-> "", cc |-> << >>,
     hasDynamicChild |-> FALSE, hasWildcardChild |-> FALSE]

newRoute(current, seg) ==
    [parent |-> current, sub |-> << >>, hmap |-> << >>, hmapMade |-> FALSE,
     named |-> << >>, pattern |-> seg,
     placeholder |-> IF Len(seg) > 0 /\ Head(seg) \in {dynamic, wildcard}
                     THEN Tail(seg) ELSE seg,
     name |-> "", cc |-> << >>,
     hasDynamicChild |-> FALSE, hasWildcardChild |-> FALSE]

\* InsertSeg that sets the flags and leaves the child out of the reserved
\* keys ":" and "*".
InsertSeg_NoReservedKey(ns, current, seg) ==
    IF seg \in DOMAIN ns[current].sub
    THEN [nodes |-> ns, node |-> ns[current].sub[seg]]
    ELSE LET id == Len(ns) + 1
             cur1 == [ns[current] EXCEPT
                        !.hasDynamicChild = @ \/ (Len(seg) > 0 /\ Head(seg) = dynamic),
                        !.hasWildcardChild = @ \/ (Len(seg) > 0 /\ Head(seg) = wildcard),
                        !.sub = (seg :> id) @@ @]
         IN  [nodes |-> Append([ns EXCEPT ![current] = cur1],
                               [parent |-> current, sub |-> << >>, hmap |-> << >>,
                                hmapMade |-> FALSE, named |-> << >>, pattern |-> seg,
                                placeholder |-> IF Len(seg) > 0 /\ Head(seg) \in {dynamic, wildcard}
                                                THEN Tail(seg) ELSE seg,
                                name |-> "", cc |-> << >>,
                                hasDynamicChild |-> FALSE, hasWildcardChild |-> FALSE]),
              node |-> id]

\* InsertSeg that leaves a reserved key that is already taken as it is.
InsertSeg_KeepFirstReserved(ns, current, seg) ==
    IF seg \in DOMAIN ns[current].sub
    THEN [nodes |-> ns, node |-> ns[current].sub[seg]]
    ELSE LET id == Len(ns) + 1
             isDyn == Len(seg) > 0 /\ Head(seg) = dynamic
             isWild == Len(seg) > 0 /\ Head(seg) = wildcard
             sub1 == IF isDyn THEN ns[current].sub @@ (dynamic :> id)
                     ELSE IF isWild THEN ns[current].sub @@ (wildcard :> id)
                     ELSE ns[current].sub
             cur1 == [ns[current] EXCEPT
                        !.hasDynamicChild = @ \/ isDyn,
                        !.hasWildcardChild = @ \/ isWild,
                        !.sub = (seg :> id) @@ sub1]
         IN  [nodes |-> Append([ns EXCEPT ![current] = cur1], newRoute(current, seg)),
              node |-> id]

\* One segment of Insert's loop: follow the child keyed by the segment's
\* text, or create it (indexed under ":" or "*" too when it is dynamic or
\* wildcard).
InsertSeg(ns, current, seg) ==
    IF seg \in DOMAIN ns[current].sub
    THEN [nodes |-> ns, node |-> ns[current].sub[seg]]
    ELSE LET id == Len(ns) + 1
             isDyn == Len(seg) > 0 /\ Head(seg) = dynamic
             isWild == Len(seg) > 0 /\ Head(seg) = wildcard
             sub1 == IF isDyn THEN (dynamic :> id) @@ ns[current].sub
                     ELSE IF isWild THEN (wildcard :> id) @@ ns[current].sub
                     ELSE ns[current].sub
             cur1 == [ns[current] EXCEPT
                        !.hasDynamicChild = @ \/ isDyn,
                        !.hasWildcardChild = @ \/ isWild,
                        !.sub = (seg :> id) @@ sub1]
         IN  [nodes |-> Append([ns EXCEPT ![current] = cur1], newRoute(current, seg)),
              node |-> id]

RECURSIVE InsertWalk(_, _, _)
InsertWalk(ns, current, segs) ==
    IF Len(segs) = 0 THEN [nodes |-> ns, node |-> current]
    ELSE LET r == InsertSeg(ns, current, Head(segs))
         IN  InsertWalk(r.nodes, r.node, Tail(segs))

\* p.Insert(route, cc...): the new trie and the node returned.
Insert(ns, p, route, cc) ==
    LET r == InsertWalk(ns, p, Split(Clean(route)))
    IN  [nodes |-> [r.nodes EXCEPT ![r.node].hmapMade = TRUE,
                                   ![r.node].cc = @ \o cc],
         node |-> r.node]

(***************************************************************************)
(* Search, one step at a time.  pc = "loop": the head of the for loop      *)
(* (line 74); pc = "back": the head of the inner backtracking loop (line   *)
(* 101); pc = "done": returned ret (Nil for nil).  i is the 0-based index  *)
(* of the code, chunks[i] is chunks[i + 1] here.                           *)
(***************************************************************************)
SearchStart(p, route, captured) ==
    [pc |-> "loop", chunks |-> Split(Clean(route)), i |-> 0, current |-> p,
     captured |-> captured, ret |-> Nil]

\* MatchKind that tries the dynamic child before the literal one.
MatchKind_DynamicFirst(cur, seg) ==
    IF cur.hasDynamicChild /\ dynamic \in DOMAIN cur.sub THEN "dynamic"
    ELSE IF seg \in DOMAIN cur.sub THEN "literal"
    ELSE IF cur.hasWildcardChild /\ wildcard \in DOMAIN cur.sub THEN "wildcard"
    ELSE "none"

\* Which child the loop body takes for seg at cur (lines 77-99): the child
\* keyed by the segment's text, else the dynamic child, else the wildcard
\* child, else none.
MatchKind(cur, seg) ==
    IF seg \in DOMAIN cur.sub THEN "literal"
    ELSE IF cur.hasDynamicChild /\ dynamic \in DOMAIN cur.sub THEN "dynamic"
    ELSE IF cur.hasWildcardChild /\ wildcard \in DOMAIN cur.sub THEN "wildcard"
    ELSE "none"

\* WildcardValue that takes the current segment alone.
WildcardValue_OneSegment(chunks, i) == chunks[i + 1]

\* strings.Join(chunks[i:], "/")
WildcardValue(chunks, i) == Join(SubSeq(chunks, i + 1, Len(chunks)))

\* SearchLoop that goes on below the wildcard child with the next segment.
SearchLoop_WildcardDescends(st) ==
    IF st.i >= Len(st.chunks)
    THEN [st EXCEPT !.pc = "done", !.ret = st.current]
    ELSE LET cur == nodes[st.current]
             seg == st.chunks[st.i + 1]
             kind == MatchKind(cur, seg)
         IN  CASE kind = "literal" ->
                    [st EXCEPT !.current = cur.sub[seg], !.i = @ + 1]
               [] kind = "dynamic" ->
                    LET next == cur.sub[dynamic]
                    IN  [st EXCEPT !.captured = Add(@, nodes[next].placeholder, seg),
                                   !.current = next, !.i = @ + 1]
               [] kind = "wildcard" ->
                    LET next == cur.sub[wildcard]
                    IN  [st EXCEPT !.captured = Add(@, nodes[next].placeholder,
                                                    WildcardValue(st.chunks, st.i)),
                                   !.current = next, !.i = @ + 1]
               [] OTHER -> [st EXCEPT !.pc = "back"]

SearchLoop(st) ==
    IF st.i >= Len(st.chunks)
    THEN [st EXCEPT !.pc = "done", !.ret = st.current]
    ELSE LET cur == nodes[st.current]
             seg == st.chunks[st.i + 1]
             kind == MatchKind(cur, seg)
         IN  CASE kind = "literal" ->
                    [st EXCEPT !.current = cur.sub[seg], !.i = @ + 1]
               [] kind = "dynamic" ->
                    LET next == cur.sub[dynamic]
                    IN  [st EXCEPT !.captured = Add(@, nodes[next].placeholder, seg),
                                   !.current = next, !.i = @ + 1]
               [] kind = "wildcard" ->
                    LET next == cur.sub[wildcard]
                    IN  [st EXCEPT !.captured = Add(@, nodes[next].placeholder,
                                                    WildcardValue(st.chunks, st.i)),
                                   !.pc = "done", !.ret = next]
               [] OTHER -> [st EXCEPT !.pc = "back"]

\* SearchBack that gives up at the first dead end.
SearchBack_GiveUp(st) == [st EXCEPT !.pc = "done", !.ret = Nil]

\* SearchBack that looks for an alternative at the nearest ancestor only.
SearchBack_OneLevel(st) ==
    LET cur == nodes[st.current]
        par == nodes[cur.parent]
    IN  IF cur.parent = Nil
        THEN [st EXCEPT !.pc = "done", !.ret = Nil]
        ELSE IF par.hasDynamicChild /\ par.sub[dynamic] # st.current
        THEN LET next == par.sub[dynamic]
             IN  [st EXCEPT !.captured = Add(@, nodes[next].placeholder, st.chunks[st.i]),
                            !.current = next, !.pc = "loop"]
        ELSE IF par.hasWildcardChild /\ par.sub[wildcard] # st.current
        THEN LET next == par.sub[wildcard]
             IN  [st EXCEPT !.captured = Add(@, nodes[next].placeholder,
                                             WildcardValue(st.chunks, st.i - 1)),
                            !.i = @ - 1, !.pc = "done", !.ret = next]
        ELSE [st EXCEPT !.pc = "done", !.ret = Nil]

\* SearchBack without the test that the sibling is not the node just left.
SearchBack_NoGuard(st) ==
    LET cur == nodes[st.current]
        par == nodes[cur.parent]
    IN  IF cur.parent = Nil
        THEN [st EXCEPT !.pc = "done", !.ret = Nil]
        ELSE IF par.hasDynamicChild
        THEN LET next == par.sub[dynamic]
             IN  [st EXCEPT !.captured = Add(@, nodes[next].placeholder, st.chunks[st.i]),
                            !.current = next, !.pc = "loop"]
        ELSE IF par.hasWildcardChild
        THEN LET next == par.sub[wildcard]
             IN  [st EXCEPT !.captured = Add(@, nodes[next].placeholder,
                                             WildcardValue(st.chunks, st.i - 1)),
                            !.i = @ - 1, !.pc = "done", !.ret = next]
        ELSE [st EXCEPT !.i = @ - 1, !.current = cur.parent]

\* SearchBack that climbs to the parent without decrementing i.
SearchBack_KeepIndex(st) ==
    LET cur == nodes[st.current]
        par == nodes[cur.parent]
    IN  IF cur.parent = Nil
        THEN [st EXCEPT !.pc = "done", !.ret = Nil]
        ELSE IF par.hasDynamicChild /\ par.sub[dynamic] # st.current
        THEN LET next == par.sub[dynamic]
             IN  [st EXCEPT !.captured = Add(@, nodes[next].placeholder, st.chunks[st.i]),
                            !.current = next, !.pc = "loop"]
        ELSE IF par.hasWildcardChild /\ par.sub[wildcard] # st.current
        THEN LET next == par.sub[wildcard]
             IN  [st EXCEPT !.captured = Add(@, nodes[next].placeholder,
                                             WildcardValue(st.chunks, st.i - 1)),
                            !.i = @ - 1, !.pc = "done", !.ret = next]
        ELSE [st EXCEPT !.current = cur.parent]

SearchBack(st) ==
    LET cur == nodes[st.current]
        par == nodes[cur.parent]
    IN  IF cur.parent = Nil
        THEN [st EXCEPT !.pc = "done", !.ret = Nil]
        ELSE IF par.hasDynamicChild /\ par.sub[dynamic] # st.current
        THEN LET next == par.sub[dynamic]
             IN  \* i--, capture chunks[i], continue SEARCH (i++)
                 [st EXCEPT !.captured = Add(@, nodes[next].placeholder, st.chunks[st.i]),
                            !.current = next, !.pc = "loop"]
        ELSE IF par.hasWildcardChild /\ par.sub[wildcard] # st.current
        THEN LET next == par.sub[wildcard]
             IN  [st EXCEPT !.captured = Add(@, nodes[next].placeholder,
                                             WildcardValue(st.chunks, st.i - 1)),
                            !.i = @ - 1, !.pc = "done", !.ret = next]
        ELSE [st EXCEPT !.i = @ - 1, !.current = cur.parent]

SearchStep(st) == IF st.pc = "loop" THEN SearchLoop(st) ELSE SearchBack(st)

\* The states a call of Search goes through, the last one first to reach
\* pc = "done" (or the state after MaxSteps steps).
RECURSIVE SearchRun(_, _)
SearchRun(hist, fuel) ==
    LET st == hist[Len(hist)]
    IN  IF st.pc = "done" \/ fuel = 0 THEN hist
        ELSE SearchRun(Append(hist, SearchStep(st)), fuel - 1)

Search(p, route, captured) == SearchRun(<<SearchStart(p, route, captured)>>, MaxSteps)

(***************************************************************************)
(* Invoke: the handler for the request's method, else the one registered   *)
(* under "*", called once; err is what the handler returns ("nil", "Error" *)
(* for an *Error, "other").  code is the status Invoke sets (0: none).     *)
(***************************************************************************)
ErrorCode == 400

\* InvokeResult without the fallback to the handler registered under "*".
InvokeResult_NoAnyFallback(p, method, err) ==
    LET hmap == nodes[p].hmap
    IN  IF method \notin DOMAIN hmap
        THEN [ret |-> FALSE, invoked |-> << >>, code |-> 0]
        ELSE [ret |-> TRUE, invoked |-> <<hmap[method]>>,
              code |-> CASE err = "nil" -> 0
                         [] err = "Error" -> ErrorCode
                         [] OTHER -> StatusInternalServerError]

InvokeResult(p, method, err) ==
    LET hmap == nodes[p].hmap
    IN  IF method \notin DOMAIN hmap /\ anyone \notin DOMAIN hmap
        THEN [ret |-> FALSE, invoked |-> << >>, code |-> 0]
        ELSE LET fn == IF method \in DOMAIN hmap THEN hmap[method] ELSE hmap[anyone]
             IN  [ret |-> TRUE, invoked |-> <<fn>>,
                  code |-> CASE err = "nil" -> 0
                             [] err = "Error" -> ErrorCode
                             [] OTHER -> StatusInternalServerError]

(***************************************************************************)
(* Handler registration on a node.  A handler value is the function and    *)
(* the middleware wrapped around it, innermost first.                      *)
(***************************************************************************)
HandlerFunc(h) == [fn |-> h, wraps |-> << >>]

Connect(h, cc) == [h EXCEPT !.wraps = @ \o cc]

\* For that keeps a handler already registered for the method.
For_KeepFirst(ns, p, method, h) ==
    IF ~ns[p].hmapMade THEN [nodes |-> ns, panic |-> TRUE]
    ELSE [nodes |-> [ns EXCEPT ![p].hmap = @ @@ (method :> [fn |-> h.fn, wraps |-> h.wraps \o ns[p].cc])],
          panic |-> FALSE]

\* p.For(method, h): the new trie; writing to the nil hmap of a node that
\* no Insert ended at panics.
For(ns, p, method, h) ==
    IF ~ns[p].hmapMade THEN [nodes |-> ns, panic |-> TRUE]
    ELSE [nodes |-> [ns EXCEPT ![p].hmap = (method :> Connect(h, ns[p].cc)) @@ @],
          panic |-> FALSE]

RouteAny(ns, p, h) == For(ns, p, wildcard, Connect(h, ns[p].cc))

(***************************************************************************)
(* ServerMux.                                                              *)
(***************************************************************************)
defaultNotFoundHandler == "notfound"

NewServerMux == [prefix |-> "", notfound |-> defaultNotFoundHandler]

\* sm.root.Insert(route, method, h): the pattern is inserted and h is
\* registered under method at the node it ends at.
InsertMethod(ns, route, method, h) ==
    LET r == Insert(ns, Root, route, << >>)
    IN  [nodes |-> [r.nodes EXCEPT ![r.node].hmap = (method :> h) @@ @],
         node |-> r.node]

\* ServeHTTP without the return after the method's handler.
ServeHTTP_FallThrough(n, method) ==
    IF n # Nil /\ method \in DOMAIN nodes[n].hmap
    THEN <<nodes[n].hmap[method], sm.notfound>>
    ELSE IF n # Nil /\ customANY \in DOMAIN nodes[n].hmap
    THEN <<nodes[n].hmap[customANY]>>
    ELSE <<sm.notfound>>

\* ServeHTTP: the handlers whose ServeHTTP is called, in order, for a
\* request whose path Search resolved to node n (Nil: no node).
ServeHTTP(n, method) ==
    IF n # Nil /\ method \in DOMAIN nodes[n].hmap
    THEN <<nodes[n].hmap[method]>>
    ELSE IF n # Nil /\ customANY \in DOMAIN nodes[n].hmap
    THEN <<nodes[n].hmap[customANY]>>
    ELSE <<sm.notfound>>

(***************************************************************************)
(* Named routes.  Name and From reach the root by the parent links.        *)
(***************************************************************************)
RECURSIVE RootOf(_, _)
RootOf(ns, p) == IF ns[p].parent = Nil THEN p ELSE RootOf(ns, ns[p].parent)

Name(ns, p, name) ==
    LET root == RootOf(ns, p)
        ns1 == [ns EXCEPT ![p].name = name]
    IN  [ns1 EXCEPT ![root].named = (name :> p) @@ @]

\* The loop of From (lines 223-232): the segments from t up to the first
\* node with an empty pattern, and what is left of v.
RECURSIVE FromWalk(_, _, _)
FromWalk(t, v, seg) ==
    IF t = Nil \/ nodes[t].pattern = "" THEN [seg |-> seg, v |-> v]
    ELSE IF Has(v, nodes[t].placeholder)
    THEN FromWalk(nodes[t].parent, Del(v, nodes[t].placeholder),
                  Append(seg, Get(v, nodes[t].placeholder)))
    ELSE FromWalk(nodes[t].parent, v, Append(seg, nodes[t].pattern))

\* WriteSegs in the order of the walk, deepest segment first.
RECURSIVE WriteSegs_Forward(_)
WriteSegs_Forward(seg) ==
    IF Len(seg) = 0 THEN ""
    ELSE "/" \o seg[1] \o WriteSegs_Forward(Tail(seg))

\* The buffer written from seg[len(seg)-1] down to seg[0].
RECURSIVE WriteSegs(_)
WriteSegs(seg) ==
    IF Len(seg) = 0 THEN ""
    ELSE "/" \o seg[Len(seg)] \o WriteSegs(SubSeq(seg, 1, Len(seg) - 1))

\* p.From(name, v): nil for an unknown name; else the bytes of the buffer,
\* which are the nil slice too when nothing was written to it.  v is the
\* caller's map after the call.
From(p, name, v) ==
    LET named == nodes[RootOf(nodes, p)].named
    IN  IF name \notin DOMAIN named THEN [nil |-> TRUE, bytes |-> "", v |-> v]
        ELSE LET w == FromWalk(named[name], v, << >>)
             IN  [nil |-> Len(w.seg) = 0, bytes |-> WriteSegs(w.seg), v |-> w.v]

(***************************************************************************)
(* Inputs.                                                                 *)
(***************************************************************************)
Routes ==
    {"/users/me", "/users/:id", "/files/*rest", "/files/:name", "/a/:x/c",
     "/a/b/d", "/a//b/d/", "/files/*rest/x", "/:", "/"}

\* Values of one segment, and of the segments a wildcard takes.
SegValues == {"42", "me", ".", "..", ":id", ":", "*"}
WildValues == {"a", "a/b/c", "*rest", "*", "a/../b", "./a", "*rest/a"}
ConcreteValues == {"42", "."}
ConcreteWilds == {"a", "a/b"}

\* A pattern with each dynamic segment replaced by v and each wildcard
\* segment by w.
RECURSIVE ConcretizeSegs(_, _, _)
ConcretizeSegs(segs, v, w) ==
    IF Len(segs) = 0 THEN << >>
    ELSE LET s == Head(segs)
             c == IF Len(s) > 0 /\ Head(s) = dynamic THEN v
                  ELSE IF Len(s) > 0 /\ Head(s) = wildcard THEN w
                  ELSE s
         IN  <<c>> \o ConcretizeSegs(Tail(segs), v, w)

Concretize(P, v, w) == Join(ConcretizeSegs(Split(P), v, w))

Paths ==
    {"/users/" \o v : v \in SegValues}
    \cup {"/files/" \o w : w \in WildValues}
    \cup {"/a/b/d", "/a/q/c", "/a/b/c", "/users//42/", "/", "/files/*rest/x"}
    \cup {Concretize(P, v, w) : P \in Routes, v \in ConcreteValues, w \in ConcreteWilds}

(***************************************************************************)
(* The state machine.                                                      *)
(***************************************************************************)
\* The request goroutines; each request makes its own url.Values.
MaxSearches == 2
Procs == 1..MaxSearches

\* Accumulator with one url.Values for all requests.
Accumulator_Shared(p) == 1

\* The accumulator of request p: the map ServeHTTP made for it.
Accumulator(p) == p

NoCalls ==
    [st |-> [p \in Procs |-> [pc |-> "idle"]],
     route |-> [p \in Procs |-> ""],
     caps |-> [a \in Procs |-> NoValues],
     mixed |-> [p \in Procs |-> FALSE]]

Init ==
    /\ nodes = <<createRootRoute>>
    /\ sm = NewServerMux
    /\ insLog = << >>
    /\ count = [regs |-> 0, names |-> 0]
    /\ out = [op |-> "none"]
    /\ frames = << >>
    /\ calls = NoCalls

InsertCall(routes, ccs, max) ==
    /\ Len(insLog) < max
    /\ \E route \in routes, cc \in ccs :
         LET r == Insert(nodes, Root, route, cc)
         IN  /\ nodes' = r.nodes
             /\ insLog' = Append(insLog, [route |-> route, node |-> r.node])
             /\ out' = [op |-> "Insert", route |-> route, node |-> r.node,
                        before |-> nodes]
    /\ UNCHANGED <<sm, frames, calls, count>>

SearchCall(paths) ==
    /\ \E route \in paths :
         out' = [op |-> "Search", route |-> route,
                 hist |-> Search(Root, route, NoValues)]
    /\ UNCHANGED <<nodes, sm, frames, calls, insLog, count>>

Next ==
    \/ InsertCall(Routes, {<< >>}, MaxInserts)
    \/ SearchCall(Paths)

Spec == Init /\ [][Next]_vars

(***************************************************************************)
(* Dispatch: registrations on the nodes and Invoke.                        *)
(***************************************************************************)
Methods == {MethodGet, MethodPost}
Handlers == {"h1", "h2"}
Errs == {"nil", "Error", "other"}
AllNodes == 1..Len(nodes)

ForCall ==
    /\ count.regs < MaxRegs
    /\ \E p \in AllNodes, method \in Methods, h \in Handlers :
         LET r == For(nodes, p, method, HandlerFunc(h))
         IN  /\ nodes' = r.nodes
             /\ out' = [op |-> "For", node |-> p, method |-> method, h |-> h,
                        panic |-> r.panic, before |-> nodes[p].hmap]
    /\ count' = [count EXCEPT !.regs = @ + 1]
    /\ UNCHANGED <<sm, frames, calls, insLog>>

AnyCall ==
    /\ count.regs < MaxRegs
    /\ \E p \in AllNodes, h \in Handlers :
         LET r == RouteAny(nodes, p, HandlerFunc(h))
         IN  /\ nodes' = r.nodes
             /\ out' = [op |-> "Any", node |-> p, method |-> anyone, h |-> h,
                        panic |-> r.panic, before |-> nodes[p].hmap]
    /\ count' = [count EXCEPT !.regs = @ + 1]
    /\ UNCHANGED <<sm, frames, calls, insLog>>

InvokeCall ==
    /\ \E p \in AllNodes, method \in Methods, err \in Errs :
         LET r == InvokeResult(p, method, err)
         IN  out' = [op |-> "Invoke", node |-> p, method |-> method, err |-> err,
                     ret |-> r.ret, invoked |-> r.invoked, code |-> r.code]
    /\ UNCHANGED <<nodes, sm, frames, calls, insLog, count>>

InvokeRoutes == {"/users/:id"}

NextInvoke ==
    \/ InsertCall(InvokeRoutes, {<< >>}, MaxInserts)
    \/ ForCall
    \/ AnyCall
    \/ InvokeCall

SpecInvoke == Init /\ [][NextInvoke]_vars

ReInsertRoutes == {"/:", "/:x", "/a/b/d"}

NextReInsert ==
    \/ InsertCall(ReInsertRoutes, {<< >>}, MaxReInserts)
    \/ ForCall

SpecReInsert == Init /\ [][NextReInsert]_vars

(***************************************************************************)
(* Named routes: Insert, Name, From.                                       *)
(***************************************************************************)
Names == {"profile", "home"}
NameRoutes == {"/users/:id", "/:id/id", "/:id/:id", "/files/*rest", "/:", "/"}
ValueMaps == {NoValues, "id" :> <<"7">>, "rest" :> <<"a/b">>, "" :> <<"7">>}
NamedNodes == {nodes[Root].named[n] : n \in DOMAIN nodes[Root].named}
InsertedNodes == {insLog[k].node : k \in 1..Len(insLog)}

NameCall ==
    /\ count.names < MaxNames
    /\ \E p \in InsertedNodes \cup {Root}, name \in Names :
         /\ nodes' = Name(nodes, p, name)
         /\ out' = [op |-> "Name", node |-> p, name |-> name]
    /\ count' = [count EXCEPT !.names = @ + 1]
    /\ UNCHANGED <<sm, frames, calls, insLog>>

FromCall ==
    /\ \E p \in NamedNodes \cup {Root}, name \in Names, v \in ValueMaps :
         LET r == From(p, name, v)
         IN  out' = [op |-> "From", node |-> p, name |-> name, v |-> v,
                     nil |-> r.nil, bytes |-> r.bytes, vAfter |-> r.v]
    /\ UNCHANGED <<nodes, sm, frames, calls, insLog, count>>

NextName ==
    \/ InsertCall(NameRoutes, {<< >>}, MaxInserts)
    \/ NameCall
    \/ FromCall

SpecName == Init /\ [][NextName]_vars

(***************************************************************************)
(* ServerMux: registrations and requests.                                  *)
(***************************************************************************)
MuxRoutes == {"/users/:id", "/users/me", "/files/*rest"}
MuxPaths == {"/users/me", "/users/42", "/files/a/b", "/nope"}

MuxHandle(method) ==
    /\ Len(insLog) < MaxInserts
    /\ \E path \in MuxRoutes, h \in Handlers :
         LET r == InsertMethod(nodes, sm.prefix \o path, method, h)
         IN  /\ nodes' = r.nodes
             /\ insLog' = Append(insLog, [route |-> sm.prefix \o path, node |-> r.node])
             /\ out' = [op |-> "Handle", route |-> sm.prefix \o path, path |-> path,
                        method |-> method, h |-> h, node |-> r.node]
    /\ UNCHANGED <<sm, frames, calls, count>>

MuxGet == MuxHandle(MethodGet)
MuxPost == MuxHandle(MethodPost)
MuxAny == MuxHandle(customANY)

ServeCall ==
    /\ \E path \in MuxPaths, method \in Methods :
         LET hist == Search(Root, path, NoValues)
             n == hist[Len(hist)].ret
         IN  out' = [op |-> "ServeHTTP", path |-> path, method |-> method,
                     returned |-> hist[Len(hist)].pc = "done", node |-> n,
                     served |-> ServeHTTP(n, method)]
    /\ UNCHANGED <<nodes, sm, frames, calls, insLog, count>>

NextMux ==
    \/ MuxGet
    \/ MuxPost
    \/ MuxAny
    \/ ServeCall

SpecMux == Init /\ [][NextMux]_vars

(***************************************************************************)
(* What the claims read off a state.                                       *)
(***************************************************************************)
Searched == out.op = "Search"
Final == out.hist[Len(out.hist)]
Returned == Final.pc = "done"
Inserted == {Clean(insLog[k].route) : k \in 1..Len(insLog)}
\* The node the latest Insert of pattern P returned.
NodeOf(P) ==
    LET ks == {k \in 1..Len(insLog) : Clean(insLog[k].route) = P}
    IN  insLog[CHOOSE k \in ks : \A j \in ks : j <= k].node
SegsOf(route) == Split(Clean(route))
IsDynamicSeg(s) == Len(s) > 0 /\ Head(s) = dynamic
IsWildcardSeg(s) == Len(s) > 0 /\ Head(s) = wildcard
\* A segment that path.Clean keeps and that is no pattern text.
Ordinary(s) == s # "" /\ s # "." /\ s # ".." /\ Head(s) # dynamic /\ Head(s) # wildcard

(***************************************************************************)
(* C1: at every node Search visits in its loop, a literal child keyed by   *)
(* the current segment is taken first and nothing is captured for that     *)
(* segment; without one the dynamic child is taken, and only without       *)
(* either the wildcard child.  With /users/me and /users/:id both          *)
(* registered, Search("/users/me") returns the me node, captured empty.    *)
(***************************************************************************)
C1_Order(a, b) ==
    LET cur == nodes[a.current]
        seg == a.chunks[a.i + 1]
    IN  (a.pc = "loop" /\ a.i < Len(a.chunks)) =>
          /\ seg \in DOMAIN cur.sub =>
               /\ b.current = cur.sub[seg]
               /\ b.captured = a.captured
               /\ b.pc = "loop" /\ b.i = a.i + 1
          /\ (seg \notin DOMAIN cur.sub /\ cur.hasDynamicChild) =>
               /\ b.current = cur.sub[dynamic]
               /\ b.captured = Add(a.captured, nodes[b.current].placeholder, seg)
          /\ (seg \notin DOMAIN cur.sub /\ ~cur.hasDynamicChild /\ cur.hasWildcardChild) =>
               /\ b.pc = "done" /\ b.ret = cur.sub[wildcard]

C1_LiteralFirst ==
    Searched =>
      /\ \A k \in 1..(Len(out.hist) - 1) : C1_Order(out.hist[k], out.hist[k + 1])
      /\ ({"/users/me", "/users/:id"} \subseteq Inserted /\ out.route = "/users/me") =>
           /\ Returned
           /\ Final.ret = NodeOf("/users/me")
           /\ nodes[Final.ret].pattern = "me"
           /\ Final.captured = NoValues

C1_Witness ==
    /\ Searched /\ out.route = "/users/me"
    /\ Len(insLog) = 2
    /\ insLog[1].route = "/users/:id" /\ insLog[2].route = "/users/me"
    /\ Final.ret = NodeOf("/users/me")

(***************************************************************************)
(* C2 as claimed: with only /users/:id registered, for every non-empty     *)
(* single segment v, Search("/users/" + v) returns the :id node with       *)
(* captured = {id: [v]}.                                                   *)
(***************************************************************************)
C2_Case(v) ==
    /\ Returned
    /\ Final.ret = NodeOf("/users/:id")
    /\ Final.captured = ("id" :> <<v>>)

C2_AnyValue ==
    (Searched /\ Inserted = {"/users/:id"}) =>
      \A v \in SegValues : out.route = "/users/" \o v => C2_Case(v)

(***************************************************************************)
(* C2 amended: the same for every v other than ".", ".." (which path.Clean *)
(* removes: "." gives the users node, ".." gives no match) and other than  *)
(* ":" and ":id" (the keys the node is also stored under as a literal      *)
(* child: the :id node is returned and nothing is captured).               *)
(***************************************************************************)
C2_DynamicCapture ==
    (Searched /\ Inserted = {"/users/:id"}) =>
      \A v \in SegValues : out.route = "/users/" \o v =>
        /\ Returned
        /\ v \notin {".", "..", ":", ":id"} => C2_Case(v)
        /\ v \in {":", ":id"} =>
             Final.ret = NodeOf("/users/:id") /\ Final.captured = NoValues
        /\ v = "." =>
             nodes[Final.ret].pattern = "users" /\ Final.captured = NoValues
        /\ v = ".." => Final.ret = Nil /\ Final.captured = NoValues

C2_Witness ==
    /\ Searched /\ Inserted = {"/users/:id"} /\ out.route = "/users/42"
    /\ Final.captured = ("id" :> <<"42">>)
    /\ nodes[Final.ret].pattern = ":id"

(***************************************************************************)
(* C3 as claimed: with only /files/*rest registered, for every path        *)
(* /files/s1/.../sn of n >= 1 non-empty segments Search returns the *rest  *)
(* node with captured = {rest: ["s1/.../sn"]} and looks at no segment      *)
(* after s1.                                                               *)
(***************************************************************************)
C3_Case(w) ==
    /\ Returned
    /\ Final.ret = NodeOf("/files/*rest")
    /\ Final.captured = ("rest" :> <<w>>)
    /\ \A k \in 1..Len(out.hist) : out.hist[k].i <= 2

C3_AnySegments ==
    (Searched /\ Inserted = {"/files/*rest"}) =>
      \A w \in WildValues : out.route = "/files/" \o w => C3_Case(w)

(***************************************************************************)
(* C3 amended: the same for every path none of whose segments is "." or    *)
(* ".." and whose s1 is neither "*" nor "*rest" (the literal keys of the   *)
(* node: with such an s1 nothing is captured, the node is returned for     *)
(* n = 1 and no match for n > 1).                                          *)
(***************************************************************************)
C3_WildcardCapture ==
    (Searched /\ Inserted = {"/files/*rest"}) =>
      \A w \in WildValues : out.route = "/files/" \o w =>
        LET segs == Split(w)
        IN  /\ Returned
            /\ (\A k \in 1..Len(segs) : Ordinary(segs[k])) => C3_Case(w)
            /\ (segs[1] \in {"*", "*rest"}
                  /\ \A k \in 1..Len(segs) : segs[k] \notin {".", ".."}) =>
                 /\ Final.captured = NoValues
                 /\ Final.ret =
                      IF Len(segs) = 1 THEN NodeOf("/files/*rest") ELSE Nil

C3_Witness ==
    /\ Searched /\ Inserted = {"/files/*rest"} /\ out.route = "/files/a/b/c"
    /\ Final.captured = ("rest" :> <<"a/b/c">>)
    /\ nodes[Final.ret].pattern = "*rest"
    /\ Final.i = 2

(***************************************************************************)
(* C4: with exactly /a/:x/c and /a/b/d registered, Search("/a/b/d")        *)
(* returns the d node under the literal b with no capture, Search          *)
(* ("/a/q/c") the c node under :x with x = [q], and Search("/a/b/c")       *)
(* leaves the b node for its dynamic sibling :x, captures x = [b] there,   *)
(* resumes at the same segment index and returns the c node under :x.      *)
(***************************************************************************)
C4_Retreat(a, b) ==
    /\ a.pc = "back" /\ nodes[a.current].pattern = "b"
    /\ b.pc = "loop" /\ nodes[b.current].pattern = ":x"
    /\ nodes[b.current].parent = nodes[a.current].parent
    /\ b.i = a.i
    /\ b.captured = ("x" :> <<"b">>)

C4_Backtrack ==
    (Searched /\ Inserted = {"/a/:x/c", "/a/b/d"}) =>
      /\ out.route = "/a/b/d" =>
           /\ Returned /\ Final.ret = NodeOf("/a/b/d")
           /\ nodes[nodes[Final.ret].parent].pattern = "b"
           /\ Final.captured = NoValues
      /\ out.route = "/a/q/c" =>
           /\ Returned /\ Final.ret = NodeOf("/a/:x/c")
           /\ Final.captured = ("x" :> <<"q">>)
      /\ out.route = "/a/b/c" =>
           /\ Returned /\ Final.ret = NodeOf("/a/:x/c")
           /\ nodes[nodes[Final.ret].parent].pattern = ":x"
           /\ Final.captured = ("x" :> <<"b">>)
           /\ \E k \in 1..(Len(out.hist) - 1) : C4_Retreat(out.hist[k], out.hist[k + 1])

C4_Witness ==
    /\ Searched /\ Inserted = {"/a/:x/c", "/a/b/d"} /\ out.route = "/a/b/c"
    /\ Final.ret = NodeOf("/a/:x/c")
    /\ Final.captured = ("x" :> <<"b">>)


(***************************************************************************)
(* C5 as claimed: after Insert(P), for any pattern P and whatever else the *)
(* trie holds, Search for P with each dynamic segment replaced by one      *)
(* concrete segment and the wildcard segment by one or more returns the    *)
(* node Insert returned, and the keys captured are the names P declares.   *)
(***************************************************************************)
DeclaredNames(P) ==
    LET segs == SegsOf(P)
    IN  {Tail(segs[k]) : k \in {j \in 1..Len(segs) :
                                  IsDynamicSeg(segs[j]) \/ IsWildcardSeg(segs[j])}}

C5_Case(P, node) ==
    /\ Returned
    /\ Final.ret = node
    /\ DOMAIN Final.captured = DeclaredNames(P)

C5_AnyPattern ==
    (Searched /\ Len(insLog) > 0) =>
      LET last == insLog[Len(insLog)]
      IN  \A w \in ConcreteWilds :
            out.route = Concretize(last.route, "42", w) => C5_Case(last.route, last.node)

(***************************************************************************)
(* C5 amended: the round trip holds on a trie that holds only P, for a     *)
(* pattern P whose wildcard segment, if any, is its last segment, and      *)
(* concrete segments that are not ".", ".." and do not begin with ':' or   *)
(* '*'.                                                                    *)
(***************************************************************************)
WildcardLast(P) ==
    LET segs == SegsOf(P)
    IN  \A k \in 1..Len(segs) : IsWildcardSeg(segs[k]) => k = Len(segs)

AllOrdinary(w) == LET segs == Split(w) IN \A k \in 1..Len(segs) : Ordinary(segs[k])

C5_RoundTrip ==
    (Searched /\ Len(insLog) > 0) =>
      LET last == insLog[Len(insLog)]
      IN  (Inserted = {Clean(last.route)} /\ WildcardLast(last.route)) =>
            \A v \in ConcreteValues, w \in ConcreteWilds :
              (Ordinary(v) /\ AllOrdinary(w)
                 /\ out.route = Concretize(last.route, v, w)) =>
                C5_Case(last.route, last.node)

C5_Witness ==
    /\ Searched /\ Len(insLog) = 1 /\ insLog[1].route = "/a/:x/c"
    /\ out.route = "/a/42/c"
    /\ Final.ret = insLog[1].node
    /\ DOMAIN Final.captured = {"x"}


(***************************************************************************)
(* C6: Invoke calls the handler registered for the request's method if     *)
(* there is one, else the one registered with Any if there is one, and     *)
(* then returns true whatever the handler returns, having called that one  *)
(* handler once; with neither it calls nothing and returns false.          *)
(***************************************************************************)
C6_Dispatch ==
    out.op = "Invoke" =>
      LET hmap == nodes[out.node].hmap
      IN  /\ out.method \in DOMAIN hmap =>
               out.invoked = <<hmap[out.method]>> /\ out.ret
          /\ (out.method \notin DOMAIN hmap /\ anyone \in DOMAIN hmap) =>
               out.invoked = <<hmap[anyone]>> /\ out.ret
          /\ (out.method \notin DOMAIN hmap /\ anyone \notin DOMAIN hmap) =>
               out.invoked = << >> /\ ~out.ret

C6_Witness ==
    /\ out.op = "Invoke" /\ out.err = "other"
    /\ out.method \notin DOMAIN nodes[out.node].hmap
    /\ anyone \in DOMAIN nodes[out.node].hmap
    /\ out.ret /\ Len(out.invoked) = 1 /\ out.invoked[1].fn \in Handlers

(***************************************************************************)
(* C10 as claimed: inserting a pattern that was inserted before creates no *)
(* node, changes no child map and returns the node the earlier Insert      *)
(* returned; after For(method, h) on a node, Invoke for that method calls  *)
(* the handler just registered and no other.                               *)
(***************************************************************************)
EarlierInserts == {k \in 1..(Len(insLog) - 1) : Clean(insLog[k].route) = Clean(out.route)}

C10_SameStructure ==
    /\ Len(nodes) = Len(out.before)
    /\ \A n \in 1..Len(out.before) :
         /\ nodes[n].sub = out.before[n].sub
         /\ nodes[n].hasDynamicChild = out.before[n].hasDynamicChild
         /\ nodes[n].hasWildcardChild = out.before[n].hasWildcardChild

C10_LastHandlerWins ==
    (out.op = "For" /\ ~out.panic) =>
      \A err \in Errs :
        LET r == InvokeResult(out.node, out.method, err)
        IN  /\ r.ret
            /\ Len(r.invoked) = 1 /\ r.invoked[1].fn = out.h

C10_AnyPattern ==
    /\ (out.op = "Insert" /\ EarlierInserts # {}) =>
         /\ C10_SameStructure
         /\ \A k \in EarlierInserts : insLog[k].node = out.node
    /\ C10_LastHandlerWins

(***************************************************************************)
(* C10 amended: the same, the returned node being the earlier one for a    *)
(* pattern none of whose segments is exactly ":" or "*" (the keys a        *)
(* dynamic or wildcard child is also stored under).                        *)
(***************************************************************************)
NoReservedSeg(route) ==
    LET segs == SegsOf(route)
    IN  \A k \in 1..Len(segs) : segs[k] \notin {dynamic, wildcard}

C10_Idempotent ==
    /\ (out.op = "Insert" /\ EarlierInserts # {}) =>
         /\ C10_SameStructure
         /\ NoReservedSeg(out.route) => \A k \in EarlierInserts : insLog[k].node = out.node
    /\ C10_LastHandlerWins

C10_Witness ==
    /\ out.op = "For" /\ ~out.panic
    /\ out.method \in DOMAIN out.before /\ out.before[out.method].fn # out.h
    /\ Len(insLog) = 2 /\ insLog[1].route = "/:x" /\ insLog[2].route = "/:x"
    /\ insLog[1].node = insLog[2].node /\ out.node = insLog[2].node


(***************************************************************************)
(* C7: for every request ServeHTTP calls one handler, once: the handler of *)
(* the node Search returned for the request's method if the node has one,  *)
(* else the node's ANY handler if it has one, else (no node, or a node     *)
(* with neither) the not-found handler, which is never called together     *)
(* with a route handler.                                                   *)
(***************************************************************************)
C7_OneHandler ==
    out.op = "ServeHTTP" =>
      LET n == out.node
          hmap == nodes[n].hmap
      IN  /\ out.returned
          /\ Len(out.served) = 1
          /\ (n # Nil /\ out.method \in DOMAIN hmap) => out.served[1] = hmap[out.method]
          /\ (n # Nil /\ out.method \notin DOMAIN hmap /\ customANY \in DOMAIN hmap) =>
               out.served[1] = hmap[customANY]
          /\ (n = Nil \/ (out.method \notin DOMAIN hmap /\ customANY \notin DOMAIN hmap)) =>
               out.served[1] = sm.notfound
          /\ out.served[1] = sm.notfound \/ out.served[1] \in Handlers

C7_Witness ==
    /\ out.op = "ServeHTTP" /\ out.path = "/users/42" /\ out.method = MethodGet
    /\ out.node # Nil /\ nodes[out.node].pattern = ":id"
    /\ MethodGet \notin DOMAIN nodes[out.node].hmap
    /\ customANY \in DOMAIN nodes[out.node].hmap
    /\ out.served = <<nodes[out.node].hmap[customANY]>>

(***************************************************************************)
(* C8 as claimed: for a node that Insert(P) returned and that was named N, *)
(* From(N, values), values holding a value for each dynamic and wildcard   *)
(* name of P, returns "/" followed by P's segments joined by "/", each     *)
(* dynamic or wildcard segment replaced by its value, each literal one as  *)
(* it is written in P.  (Stated for the patterns with a segment other than *)
(* "" and for values that hold P's names and nothing else.)                *)
(***************************************************************************)
NamedNode == nodes[Root].named[out.name]
PatternsOf(t) == {Clean(insLog[k].route) : k \in {j \in 1..Len(insLog) : insLog[j].node = t}}
NonEmpty(segs) == SelectSeq(segs, LAMBDA x : x # "")

RECURSIVE Rendered(_, _)
Rendered(segs, v) ==
    IF Len(segs) = 0 THEN << >>
    ELSE LET x == Head(segs)
         IN  <<IF IsDynamicSeg(x) \/ IsWildcardSeg(x) THEN Get(v, Tail(x)) ELSE x>>
               \o Rendered(Tail(segs), v)

C8_Expected(P, v) == "/" \o Join(Rendered(NonEmpty(SegsOf(P)), v))

C8_AnyPattern ==
    (out.op = "From" /\ out.name \in DOMAIN nodes[Root].named) =>
      \A P \in PatternsOf(NamedNode) :
        (DeclaredNames(P) = DOMAIN out.v /\ NonEmpty(SegsOf(P)) # << >>) =>
          ~out.nil /\ out.bytes = C8_Expected(P, out.v)

(***************************************************************************)
(* C8 amended: the same when P's dynamic and wildcard names are pairwise   *)
(* different and differ from the text of every literal segment of P, no    *)
(* segment of P is exactly ":" or "*", and values holds exactly P's names; *)
(* for P = "/", which has no segment to write, From returns nothing.       *)
(* (From gives a literal segment the value stored under its text and       *)
(* gives a name's value only to the deepest segment of that name.)         *)
(***************************************************************************)
DistinctNames(P) ==
    LET segs == NonEmpty(SegsOf(P))
    IN  \A j, k \in 1..Len(segs) :
          (j # k /\ (IsDynamicSeg(segs[j]) \/ IsWildcardSeg(segs[j]))) =>
            /\ segs[k] # segs[j]
            /\ ~(IsDynamicSeg(segs[k]) \/ IsWildcardSeg(segs[k])) => segs[k] # Tail(segs[j])
            /\ (IsDynamicSeg(segs[k]) \/ IsWildcardSeg(segs[k])) => Tail(segs[k]) # Tail(segs[j])

C8_RoundTrip ==
    (out.op = "From" /\ out.name \in DOMAIN nodes[Root].named) =>
      \A P \in PatternsOf(NamedNode) :
        (/\ DeclaredNames(P) = DOMAIN out.v
         /\ DistinctNames(P)
         /\ NoReservedSeg(P)) =>
          IF NonEmpty(SegsOf(P)) = << >> THEN out.nil /\ out.bytes = ""
          ELSE ~out.nil /\ out.bytes = C8_Expected(P, out.v)

C8_Witness ==
    /\ out.op = "From" /\ out.name = "profile"
    /\ "profile" \in DOMAIN nodes[Root].named
    /\ PatternsOf(NamedNode) = {"/users/:id"}
    /\ out.v = ("id" :> <<"7">>)
    /\ out.bytes = "/users/7"

(***************************************************************************)
(* C9: From returns no result exactly when the name is not registered: no  *)
(* result for an unregistered name, a non-empty path for a name given to a *)
(* node that an Insert returned.                                           *)
(***************************************************************************)
C9_NilIffUnknown ==
    out.op = "From" =>
      /\ out.name \notin DOMAIN nodes[Root].named => out.nil
      /\ (out.name \in DOMAIN nodes[Root].named /\ NamedNode \in InsertedNodes) =>
           ~out.nil /\ out.bytes # ""



(***************************************************************************)
(* Registration through the per-method entry points of a node whose        *)
(* Insert attached middleware.                                             *)
(***************************************************************************)
RouteGet(ns, p, h) == For(ns, p, MethodGet, h)

RoutePost(ns, p, h) == For(ns, p, MethodPost, Connect(h, ns[p].cc))

Middlewares == {<< >>, <<"m1">>, <<"m1", "m2">>}
ChainRoutes == {"/users/:id", "/users/me"}

GetCall ==
    /\ count.regs < MaxRegs
    /\ \E p \in AllNodes, h \in Handlers :
         LET r == RouteGet(nodes, p, HandlerFunc(h))
         IN  /\ nodes' = r.nodes
             /\ out' = [op |-> "Get", node |-> p, method |-> MethodGet, h |-> h,
                        panic |-> r.panic, before |-> nodes[p].hmap]
    /\ count' = [count EXCEPT !.regs = @ + 1]
    /\ UNCHANGED <<sm, frames, calls, insLog>>

PostCall ==
    /\ count.regs < MaxRegs
    /\ \E p \in AllNodes, h \in Handlers :
         LET r == RoutePost(nodes, p, HandlerFunc(h))
         IN  /\ nodes' = r.nodes
             /\ out' = [op |-> "Post", node |-> p, method |-> MethodPost, h |-> h,
                        panic |-> r.panic, before |-> nodes[p].hmap]
    /\ count' = [count EXCEPT !.regs = @ + 1]
    /\ UNCHANGED <<sm, frames, calls, insLog>>

NextChain ==
    \/ InsertCall(ChainRoutes, Middlewares, MaxInserts)
    \/ ForCall
    \/ GetCall
    \/ PostCall
    \/ AnyCall

SpecChain == Init /\ [][NextChain]_vars

(***************************************************************************)
(* C11: whichever entry point of a node registers a handler (For, Get,     *)
(* Post, Any), the handler stored under the method is the supplied one     *)
(* wrapped by the node's middleware chain as accumulated so far, each      *)
(* middleware applied once; Get, Post and For give the same wrapping.      *)
(***************************************************************************)
Registered == out.op \in {"For", "Get", "Post", "Any"} /\ ~out.panic

C11_WrappedOnce ==
    Registered =>
      nodes[out.node].hmap[out.method] = [fn |-> out.h, wraps |-> nodes[out.node].cc]


(***************************************************************************)
(* C12 as claimed: no Search on the root, for any path, returns a node     *)
(* that is a strict descendant of a wildcard node.                         *)
(***************************************************************************)
RECURSIVE StrictAncestors(_, _)
StrictAncestors(ns, n) ==
    IF ns[n].parent = Nil THEN {}
    ELSE {ns[n].parent} \cup StrictAncestors(ns, ns[n].parent)

BelowWildcard(n) == \E a \in StrictAncestors(nodes, n) : IsWildcardSeg(nodes[a].pattern)

C12_AnyPath ==
    (Searched /\ Returned /\ Final.ret # Nil) => ~BelowWildcard(Final.ret)

(***************************************************************************)
(* C12 amended: for any path none of whose segments begins with '*',       *)
(* Search on the root returns no node that is a strict descendant of a     *)
(* wildcard node.  (A segment that is the wildcard's own text, or "*",     *)
(* finds the wildcard node as a literal child and the search goes on       *)
(* below it.)                                                              *)
(***************************************************************************)
NoStarSegment(chunks) == \A k \in 1..Len(chunks) : ~IsWildcardSeg(chunks[k])

C12_WildcardTerminal ==
    (Searched /\ Returned /\ Final.ret # Nil /\ NoStarSegment(Final.chunks)) =>
      ~BelowWildcard(Final.ret)

C12_Witness ==
    /\ Searched /\ out.route = "/files/a/x"
    /\ "/files/*rest/x" \in Inserted
    /\ \E n \in AllNodes : nodes[n].pattern = "x" /\ BelowWildcard(n)
    /\ Returned /\ nodes[Final.ret].pattern = "*rest"
    /\ Final.captured = ("rest" :> <<"a/x">>)


(***************************************************************************)
(* ServerMux.Group: the prefix is extended, fn runs (its registrations are *)
(* the MuxHandle steps taken while the call is in progress, its nested     *)
(* Group calls further frames), then the prefix saved in prev is put back. *)
(***************************************************************************)
MaxDepth == 2
GroupPrefixes == {"/api", "/v1"}
GroupRoutes == {"/users/:id"}
GroupHandlers == {"h1"}

GroupEnter(m, prefix) == [m EXCEPT !.prefix = @ \o prefix]

\* GroupLeave that leaves the extended prefix in place.
GroupLeave_KeepPrefix(m, prev) == m

GroupLeave(m, prev) == [m EXCEPT !.prefix = prev]

GroupCall ==
    /\ Len(frames) < MaxDepth
    /\ \E prefix \in GroupPrefixes :
         /\ frames' = Append(frames, [prefix |-> prefix, prev |-> sm.prefix])
         /\ sm' = GroupEnter(sm, prefix)
         /\ out' = [op |-> "Group", prefix |-> prefix]
    /\ UNCHANGED <<nodes, insLog, count, calls>>

GroupReturn ==
    /\ Len(frames) > 0
    /\ LET top == frames[Len(frames)]
       IN  /\ sm' = GroupLeave(sm, top.prev)
           /\ out' = [op |-> "GroupReturn", prefix |-> top.prefix, prev |-> top.prev]
    /\ frames' = SubSeq(frames, 1, Len(frames) - 1)
    /\ UNCHANGED <<nodes, insLog, count, calls>>

GroupHandle(method) ==
    /\ Len(insLog) < MaxInserts
    /\ \E path \in GroupRoutes, h \in GroupHandlers :
         LET r == InsertMethod(nodes, sm.prefix \o path, method, h)
         IN  /\ nodes' = r.nodes
             /\ insLog' = Append(insLog, [route |-> sm.prefix \o path, node |-> r.node])
             /\ out' = [op |-> "Handle", route |-> sm.prefix \o path, path |-> path,
                        method |-> method, h |-> h, node |-> r.node]
    /\ UNCHANGED <<sm, frames, calls, count>>

GroupGet == GroupHandle(MethodGet)

NextGroup ==
    \/ GroupCall
    \/ GroupReturn
    \/ GroupGet

SpecGroup == Init /\ [][NextGroup]_vars

(***************************************************************************)
(* C13: a registration made while Group calls are in progress is inserted  *)
(* under the prefixes of the enclosing groups, outermost first, followed   *)
(* by its own path; when Group returns the mux's prefix is what it was     *)
(* before the call, so a registration made after the group is not prefixed *)
(* by it.                                                                  *)
(***************************************************************************)
RECURSIVE Enclosing(_)
Enclosing(fs) == IF Len(fs) = 0 THEN "" ELSE Head(fs).prefix \o Enclosing(Tail(fs))

\* The patterns of the nodes from the child of the root down to n.
RECURSIVE PatternsTo(_)
PatternsTo(n) ==
    IF nodes[n].parent = Nil THEN << >>
    ELSE Append(PatternsTo(nodes[n].parent), nodes[n].pattern)

C13_GroupScope ==
    /\ sm.prefix = Enclosing(frames)
    /\ out.op = "Handle" =>
         /\ out.route = Enclosing(frames) \o out.path
         /\ PatternsTo(out.node) = SegsOf(Enclosing(frames) \o out.path)
         /\ out.method \in DOMAIN nodes[out.node].hmap
    /\ out.op = "GroupReturn" =>
         /\ sm.prefix = out.prev
         /\ out.prev \o out.prefix # sm.prefix

C13_Witness ==
    /\ out.op = "Handle" /\ frames = << >>
    /\ Len(insLog) = 2
    /\ insLog[1].route = "/api/v1/users/:id"
    /\ insLog[2].route = "/users/:id" /\ out.route = "/users/:id"
    /\ PatternsTo(insLog[1].node) = <<"", "api", "v1", "users", ":id">>
    /\ PatternsTo(out.node) = <<"", "users", ":id">>


(***************************************************************************)
(* Inserts of patterns that put different dynamic and wildcard segments at *)
(* the same place.                                                         *)
(***************************************************************************)
ShapeRoutes == {"/:x", "/:y", "/:", "/*a", "/*b", "/*", "/a/:x", "/a/:y/c"}

NextShape == InsertCall(ShapeRoutes, {<< >>}, MaxReInserts)

SpecShape == Init /\ [][NextShape]_vars

\* The distinct child nodes of n, and those with a dynamic or a wildcard
\* pattern.
Children(n) == {nodes[n].sub[k] : k \in DOMAIN nodes[n].sub}
DynamicChildren(n) == {c \in Children(n) : IsDynamicSeg(nodes[c].pattern)}
WildcardChildren(n) == {c \in Children(n) : IsWildcardSeg(nodes[c].pattern)}

(***************************************************************************)
(* C14 as claimed: after any sequence of Inserts, among the distinct child *)
(* nodes of every node at most one has a pattern beginning with ':' and at *)
(* most one a pattern beginning with '*'.                                  *)
(***************************************************************************)
C14_AtMostOne ==
    \A n \in AllNodes :
      /\ Cardinality(DynamicChildren(n)) <= 1
      /\ Cardinality(WildcardChildren(n)) <= 1

(***************************************************************************)
(* C14 amended: every node has at most one child under the reserved key    *)
(* ":" and at most one under "*": the flag is set exactly when the key is  *)
(* populated, and the key holds the dynamic (wildcard) child created last. *)
(* No two child nodes have the same pattern, so a node has one dynamic     *)
(* child per dynamic segment text inserted there: at most one when one     *)
(* text was inserted, several when the texts differ.                       *)
(***************************************************************************)
Latest(S) == CHOOSE c \in S : \A d \in S : d <= c

C14_OnePerReservedKey ==
    \A n \in AllNodes :
      LET sub == nodes[n].sub
      IN  /\ \A c, d \in Children(n) : nodes[c].pattern = nodes[d].pattern => c = d
          /\ nodes[n].hasDynamicChild <=> dynamic \in DOMAIN sub
          /\ nodes[n].hasWildcardChild <=> wildcard \in DOMAIN sub
          /\ DynamicChildren(n) # {} <=> dynamic \in DOMAIN sub
          /\ WildcardChildren(n) # {} <=> wildcard \in DOMAIN sub
          /\ dynamic \in DOMAIN sub => sub[dynamic] = Latest(DynamicChildren(n))
          /\ wildcard \in DOMAIN sub => sub[wildcard] = Latest(WildcardChildren(n))
          /\ Cardinality(DynamicChildren(n)) =
               Cardinality({nodes[c].pattern : c \in DynamicChildren(n)})
          /\ Cardinality(WildcardChildren(n)) =
               Cardinality({nodes[c].pattern : c \in WildcardChildren(n)})

C14_Witness ==
    /\ out.op = "Insert" /\ Len(insLog) = 2
    /\ insLog[1].route = "/:x" /\ insLog[2].route = "/:y"
    /\ LET n == nodes[insLog[2].node].parent
       IN  /\ DynamicChildren(n) = {insLog[1].node, insLog[2].node}
           /\ insLog[1].node # insLog[2].node
           /\ nodes[n].sub[dynamic] = insLog[2].node


(***************************************************************************)
(* C15: when Search returns a node, captured holds one entry per dynamic   *)
(* or wildcard node entered by a dynamic or wildcard match on the path     *)
(* from the root to the returned node, with the segment(s) matched there,  *)
(* and nothing captured on a branch that was abandoned.                    *)
(***************************************************************************)
\* The node a step arrived at.
Arrived(st) == IF st.pc = "done" THEN st.ret ELSE st.current

\* The captures of the steps of hist from k on that arrived at a node of
\* keep, added to acc in the order they were made.
RECURSIVE CapturesInto(_, _, _, _)
CapturesInto(hist, k, keep, acc) ==
    IF k >= Len(hist) THEN acc
    ELSE LET a == hist[k]
             b == hist[k + 1]
             t == Arrived(b)
         IN  IF b.captured # a.captured /\ t \in keep
             THEN LET key == nodes[t].placeholder
                      vals == b.captured[key]
                  IN  CapturesInto(hist, k + 1, keep, Add(acc, key, vals[Len(vals)]))
             ELSE CapturesInto(hist, k + 1, keep, acc)

C15_NoStaleCapture ==
    (Searched /\ Returned /\ Final.ret # Nil) =>
      Final.captured =
        CapturesInto(out.hist, 1, {Final.ret} \cup StrictAncestors(nodes, Final.ret), NoValues)


(***************************************************************************)
(* Searches of tries whose patterns overlap on several levels.             *)
(***************************************************************************)
DeepRoutes == {"/a/b/x", "/a/:q/z", "/:p/b/y", "/:p/:q/w", "/a/*r", "/:o/c"}
DeepPaths ==
    {"/" \o s1 \o "/" \o s2 \o "/" \o s3 :
        s1 \in {"a", "c"}, s2 \in {"b", "c"}, s3 \in {"x", "y", "z", "w"}}
    \cup {"/a/b", "/c/c", "/a", "/", "/a/*r/x"}

NextDeep ==
    \/ InsertCall(DeepRoutes, {<< >>}, MaxReInserts)
    \/ SearchCall(DeepPaths)

SpecDeep == Init /\ [][NextDeep]_vars

(***************************************************************************)
(* C16: on a trie in which no node has two dynamic children or two         *)
(* wildcard children, for a path none of whose segments begins with ':' or *)
(* '*': if some inserted pattern matches the path segment by segment       *)
(* (literal: equal text; dynamic: any one segment; wildcard: the one or    *)
(* more segments that remain), Search on the root returns a node, however  *)
(* many levels it has to go back.                                          *)
(***************************************************************************)
RECURSIVE PatternMatches(_, _)
PatternMatches(ps, cs) ==
    IF Len(ps) = 0 THEN Len(cs) = 0
    ELSE IF Len(cs) = 0 THEN FALSE
    ELSE IF IsWildcardSeg(Head(ps)) THEN Len(ps) = 1
    ELSE IF IsDynamicSeg(Head(ps)) THEN PatternMatches(Tail(ps), Tail(cs))
    ELSE Head(ps) = Head(cs) /\ PatternMatches(Tail(ps), Tail(cs))

\* No two nodes with the same parent are both dynamic or both wildcard.
OneNamePerPlace ==
    \A a, b \in AllNodes :
      (a # b /\ nodes[a].parent = nodes[b].parent) =>
        /\ ~(IsDynamicSeg(nodes[a].pattern) /\ IsDynamicSeg(nodes[b].pattern))
        /\ ~(IsWildcardSeg(nodes[a].pattern) /\ IsWildcardSeg(nodes[b].pattern))

PlainPath(chunks) ==
    \A k \in 1..Len(chunks) : ~IsDynamicSeg(chunks[k]) /\ ~IsWildcardSeg(chunks[k])

C16_Complete ==
    (Searched /\ OneNamePerPlace /\ PlainPath(Final.chunks)
       /\ \E P \in Inserted : PatternMatches(Split(P), Final.chunks)) =>
      Returned /\ Final.ret # Nil

C16_Witness ==
    /\ Searched /\ out.route = "/a/b/y"
    /\ Inserted = {"/a/:q/z", "/:p/b/y", "/a/b/x"}
    /\ OneNamePerPlace
    /\ Returned /\ Final.ret = NodeOf("/:p/b/y")
    /\ \E k \in 1..(Len(out.hist) - 2) :
         /\ out.hist[k].pc = "back" /\ nodes[out.hist[k].current].pattern = ":q"
         /\ out.hist[k + 1].pc = "back" /\ nodes[out.hist[k + 1].current].pattern = "a"
         /\ out.hist[k + 2].pc = "loop" /\ nodes[out.hist[k + 2].current].pattern = ":p"


(***************************************************************************)
(* C17 as claimed: a Search on the root takes finitely many steps and then *)
(* returns a node or no match, and it never enters again a branch that it  *)
(* has left: no node is entered twice.                                     *)
(***************************************************************************)
\* The step from a to b enters a node: it arrives at a node that is neither
\* the cursor nor the cursor's parent.
Enters(a, b) ==
    /\ Arrived(b) # Nil
    /\ Arrived(b) # a.current
    /\ Arrived(b) # nodes[a.current].parent

EntrySteps == {k \in 1..(Len(out.hist) - 1) : Enters(out.hist[k], out.hist[k + 1])}

NoReentry ==
    \A j, k \in EntrySteps :
      j # k => Arrived(out.hist[j + 1]) # Arrived(out.hist[k + 1])

C17_NeverReenters ==
    Searched => Returned /\ NoReentry

(***************************************************************************)
(* C17 amended: every Search on the root returns after no more than three  *)
(* steps per node of the trie and two more; no node is entered twice when  *)
(* no segment of the path begins with '*'.  (A wildcard node entered as a  *)
(* literal child and then left is returned later by the wildcard match of  *)
(* a sibling's dead end: the search still ends there.)                     *)
(***************************************************************************)
C17_Terminates ==
    Searched =>
      /\ Returned
      /\ Len(out.hist) - 1 <= 3 * Len(nodes) + 2
      /\ Cardinality(EntrySteps) <= Len(nodes)
      /\ NoStarSegment(Final.chunks) => NoReentry

C17_Witness ==
    /\ Searched /\ out.route = "/a/b/w"
    /\ Inserted = {"/a/:q/z", "/:p/b/y", "/a/b/x"}
    /\ Returned /\ Final.ret = Nil
    /\ Cardinality(EntrySteps) = 6
    /\ Cardinality({k \in 1..Len(out.hist) : out.hist[k].pc = "back"}) >= 6


(***************************************************************************)
(* C18: during a Search on the root, at the head of the loop and at the    *)
(* head of the backtracking loop (after every step back), i is the depth   *)
(* of the cursor below the root; so chunks[i] and chunks[i:] at the loop's *)
(* head, and chunks[i-1] and chunks[i-1:] read after i-- when a sibling is *)
(* taken, are within 0..len(chunks)-1.                                     *)
(***************************************************************************)
Depth(n) == Cardinality(StrictAncestors(nodes, n))

C18_IndexIsDepth ==
    Searched =>
      \A k \in 1..Len(out.hist) :
        LET st == out.hist[k]
        IN  /\ st.pc \in {"loop", "back"} =>
                 /\ st.i = Depth(st.current)
                 /\ 0 <= st.i /\ st.i <= Len(st.chunks)
            /\ st.pc = "back" => st.i < Len(st.chunks)
            /\ (st.pc = "back" /\ nodes[st.current].parent # Nil) =>
                 st.i - 1 >= 0 /\ st.i - 1 < Len(st.chunks)

C18_Witness ==
    /\ Searched /\ out.route = "/a/c/w"
    /\ Inserted = {"/a/b/x", "/:p/:q/w"}
    /\ Returned /\ Final.ret = NodeOf("/:p/:q/w")
    /\ Final.captured = (("p" :> <<"a">>) @@ ("q" :> <<"c">>))
    /\ \E k \in 1..(Len(out.hist) - 1) :
         /\ out.hist[k].pc = "back" /\ out.hist[k].i = Depth(out.hist[k].current)
         /\ out.hist[k + 1].pc = "loop" /\ out.hist[k + 1].i = out.hist[k].i
         /\ nodes[out.hist[k + 1].current].pattern = ":p"


(***************************************************************************)
(* Concurrent requests: after registration each goroutine runs Search on   *)
(* the shared trie with its own accumulator, one step of the loop or of    *)
(* the backtracking loop at a time, interleaved with the others.           *)
(***************************************************************************)
ConcRoutes == {"/files/:name", "/files/*rest"}
ConcPaths == {"/files/a/b", "/files/a"}

Active(p) == calls.st[p].pc \in {"loop", "back"}

ConcInsert ==
    /\ \A p \in Procs : calls.st[p].pc = "idle"
    /\ InsertCall(ConcRoutes, {<< >>}, MaxInserts)

\* ServeHTTP makes the accumulator and calls Search.
SearchBegin(p) ==
    /\ ~Active(p)
    /\ Len(insLog) > 0
    /\ \E route \in ConcPaths :
         LET st == SearchStart(Root, route, NoValues)
         IN  calls' = [calls EXCEPT
                         !.st[p] = [pc |-> st.pc, chunks |-> st.chunks, i |-> st.i,
                                    current |-> st.current, ret |-> st.ret],
                         !.route[p] = route,
                         !.caps[Accumulator(p)] = st.captured,
                         !.mixed[p] = FALSE]
    /\ UNCHANGED <<nodes, sm, insLog, count, out, frames>>

\* One step of p's Search: it reads the trie and writes p's accumulator.
SearchAdvance(p) ==
    /\ Active(p)
    /\ LET a == Accumulator(p)
           c == calls.st[p]
           st == SearchStep([pc |-> c.pc, chunks |-> c.chunks, i |-> c.i,
                             current |-> c.current, ret |-> c.ret,
                             captured |-> calls.caps[a]])
       IN  calls' = [calls EXCEPT
                       !.st[p] = [pc |-> st.pc, chunks |-> st.chunks, i |-> st.i,
                                  current |-> st.current, ret |-> st.ret],
                       !.caps[a] = st.captured,
                       !.mixed[p] = @ \/ \E q \in Procs \ {p} :
                                            Active(q) /\ calls.st[q].i > 0]
    /\ UNCHANGED <<nodes, sm, insLog, count, out, frames>>

NextConc ==
    \/ ConcInsert
    \/ \E p \in Procs : SearchBegin(p)
    \/ \E p \in Procs : SearchAdvance(p)

SpecConc == Init /\ [][NextConc]_vars

(***************************************************************************)
(* C19: Search changes no field of any node and writes only its own        *)
(* accumulator; with no Insert interleaved, every one of the concurrent    *)
(* Search calls, each with its own accumulator, returns the node and the   *)
(* captures it returns when it runs alone.                                 *)
(***************************************************************************)
Alone(p) ==
    LET hist == Search(Root, calls.route[p], NoValues)
    IN  hist[Len(hist)]

C19_ReadOnly ==
    /\ [][(\E p \in Procs : Active(p)) => nodes' = nodes]_vars
    /\ [](\A p \in Procs :
            calls.st[p].pc = "done" =>
              /\ Alone(p).pc = "done"
              /\ calls.st[p].ret = Alone(p).ret
              /\ calls.caps[Accumulator(p)] = Alone(p).captured)

C19_Witness ==
    /\ Len(insLog) = 2
    /\ insLog[1].route = "/files/:name" /\ insLog[2].route = "/files/*rest"
    /\ \A p \in Procs : calls.st[p].pc = "done" /\ calls.mixed[p]
    /\ calls.route[1] = "/files/a/b" /\ calls.st[1].ret = insLog[2].node
    /\ calls.caps[1] = (("name" :> <<"a">>) @@ ("rest" :> <<"a/b">>))
    /\ calls.route[2] = "/files/a" /\ calls.st[2].ret = insLog[1].node
    /\ calls.caps[2] = ("name" :> <<"a">>)

=============================================================================
